---- MODULE Spec2Model ----
(***************************************************************************)
(* InventoryApp: four request handlers (add_inventory_item,                *)
(* get_inventory_item, get_location_inventory_items,                       *)
(* delete_inventory_item) over one DynamoDB table 'Inventory' keyed by     *)
(* (id, location_id), with the index 'location_id-id-index'.               *)
(*                                                                         *)
(* The table is modelled as a set of items, read with strong consistency;  *)
(* the index is the table's projection.  Every backend call of a handler   *)
(* is one step, so handlers that make several calls interleave with the    *)
(* other handlers between their calls.  ulid.new() is modelled by its      *)
(* contract: an identifier that was never returned before, later ones      *)
(* sorting after earlier ones.                                             *)
(***************************************************************************)
EXTENDS Integers, Sequences, FiniteSets, TLC

\* ------------------------------------------------------------- bounds
\* Number of identifiers ulid.new() hands out in one behaviour of the four
\* handlers, and in one behaviour of POST /item and GET /location/{id} alone.
MaxItems == 2
MaxDrain == 3
\* Largest number of items the store puts in one page of a query.
MaxPage == 2
\* Bits of a float's significand (53 in the interpreter; scaled down so that
\* the first integer a float cannot hold is within the model's integers).
MantissaBits == 3

\* ------------------------------------------------------------- values
RECURSIVE Pow2(_)
Pow2(n) == IF n = 0 THEN 1 ELSE 2 * Pow2(n - 1)

\* The smallest positive integer that float() does not represent exactly.
Big == Pow2(MantissaBits) + 1

RECURSIVE UnitOf(_, _)
\* The spacing of the floats around n: the least power of two u with
\* n < u * 2^MantissaBits.
UnitOf(n, u) == IF n < u * Pow2(MantissaBits) THEN u ELSE UnitOf(n, 2 * u)

\* float(Decimal(n)): n rounded to MantissaBits significant bits, ties to even.
ToFloat(n) ==
    LET u == UnitOf(n, 1)
        q == n \div u
        r == n % u
    IN  IF 2 * r < u THEN q * u
        ELSE IF 2 * r > u THEN (q + 1) * u
        ELSE IF q % 2 = 0 THEN q * u ELSE (q + 1) * u

NoId == 0
Ids == 1..MaxItems
Locations == {1, 2}
Deleters == {"d1", "d2"}

required_fields == <<"name", "description", "qty_on_hand", "price", "location_id">>
RequiredSet == {required_fields[k] : k \in 1..Len(required_fields)}

NoItem == [id |-> NoId, name |-> "", description |-> "", qty_on_hand |-> 0,
           price |-> 0, location_id |-> 0]

\* A JSON value of the request: an integer, a string of digits, or a string
\* that is no number.
IntV(n) == [kind |-> "int", v |-> n]
NumStrV(n) == [kind |-> "numstr", v |-> n]
TextV == [kind |-> "text", v |-> 0]
NoneV == [kind |-> "none", v |-> 0]

\* int(x): raises ValueError on a string that is no integer.
ParseInt(x) == [ok |-> x.kind \in {"int", "numstr"}, v |-> x.v]

\* Decimal(str(x)): raises InvalidOperation on text that is no number.
ParseDecimal(x) == [ok |-> x.kind \in {"int", "numstr"}, v |-> x.v]

\* DecimalEncoder on the item add_inventory_item built: only price is a
\* Decimal; qty_on_hand and location_id are ints and are written exactly.
EncodeCreated(item) == [item EXCEPT !.price = ToFloat(@)]

\* DecimalEncoder on an item read from DynamoDB, whose numbers are all
\* Decimal: each becomes a float.
EncodeStored(item) ==
    [item EXCEPT !.qty_on_hand = ToFloat(@), !.price = ToFloat(@),
                 !.location_id = ToFloat(@)]

RECURSIVE SortBy(_, _)
\* The items of S in ascending order of the attribute a (a sort key).
SortBy(S, a) ==
    IF S = {} THEN <<>>
    ELSE LET m == CHOOSE x \in S : \A y \in S : x[a] <= y[a]
         IN  <<m>> \o SortBy(S \ {m}, a)

Prefix(s, n) == [k \in 1..(IF n < Len(s) THEN n ELSE Len(s)) |-> s[k]]

\* Mutant of Filter: the list stops at the first missing field.
FilterFirst(fields, given) ==
    LET missing == {k \in 1..Len(fields) : fields[k] \notin given}
    IN  IF missing = {} THEN <<>>
        ELSE <<fields[CHOOSE k \in missing : \A j \in missing : k <= j]>>

RECURSIVE Filter(_, _)
\* [f for f in fields if f not in given]
Filter(fields, given) ==
    IF fields = <<>> THEN <<>>
    ELSE (IF Head(fields) \in given THEN <<>> ELSE <<Head(fields)>>)
         \o Filter(Tail(fields), given)

\* ------------------------------------------------------------- requests
FullBody(q, p, l) ==
    [name |-> TextV, description |-> TextV, qty_on_hand |-> q, price |-> p,
     location_id |-> l]

Restrict(f, D) == [x \in D |-> f[x]]

\* event['body']: the text of a JSON object (or the object itself), text
\* that is no JSON, or None when the request has no body.
Object(f) == [json |-> "object", obj |-> f]
InvalidJson == [json |-> "invalid"]
NoBody == [json |-> "null"]

QtyInputs == {IntV(1), IntV(Big), NumStrV(1), TextV}
PriceInputs == {IntV(3), TextV}
LocationInputs == {IntV(1), IntV(2), TextV}

\* JSON objects sent to POST /item with all fields present and well-formed:
\* an item at each location, and one whose quantity no float holds.
ValidBodies ==
    {Object(FullBody(IntV(1), IntV(3), IntV(l))) : l \in Locations}
    \cup {Object(FullBody(IntV(Big), IntV(3), IntV(1)))}

\* Bodies sent to POST /item: every combination of values with all fields
\* present, every proper subset of the fields of a valid body, text that is
\* no JSON, and no body.
AllBodies ==
    {Object(FullBody(q, p, l)) :
        q \in QtyInputs, p \in PriceInputs, l \in LocationInputs}
    \cup {Object(Restrict(FullBody(IntV(1), IntV(3), IntV(1)), D)) :
            D \in (SUBSET RequiredSet) \ {RequiredSet}}
    \cup {InvalidJson, NoBody}

\* pathParameters.id of GET /location/{id}
LocationParams == {NoneV, TextV, NumStrV(1), NumStrV(2)}

\* pathParameters.id of GET /item/{id} and DELETE /item/{id}; NoId is the
\* absent or empty parameter.
IdParams == Ids \cup {NoId}

\* ------------------------------------------------------------- state
VARIABLES
    store,        \* the items of table 'Inventory'
    nextId,       \* the next identifier ulid.new() returns
    created,      \* history: the item of every 201 response of POST /item
    deleted,      \* history: key and response item of every delete_item call
    last,         \* the request a handler served last and its response
    loc,          \* the GET /location/{id} invocation between two queries
    del,          \* the DELETE /item/{id} invocations between query and delete
    endless       \* the store never ends pagination

vars == <<store, nextId, created, deleted, last, loc, del, endless>>

\* No response: a handler is between two backend calls.
NoLast == [op |-> "none"]
LocIdle == [pc |-> "idle", location_id |-> 0, items |-> <<>>, lek |-> NoId,
            pages |-> 0, dirty |-> FALSE]
DelIdle == [pc |-> "idle", id |-> NoId, item |-> NoItem]

InitCommon ==
    /\ store = {}
    /\ nextId = 1
    /\ created = {}
    /\ deleted = {}
    /\ last = NoLast
    /\ loc = LocIdle
    /\ del = [p \in Deleters |-> DelIdle]

Init == InitCommon /\ endless = FALSE

\* ------------------------------------------------------------- the store
SameKey(r, id, location_id) == r.id = id /\ r.location_id = location_id

\* table.put_item(Item=item): unconditional, replaces the item of the same key.
PutItem(item) == {r \in store : ~SameKey(r, item.id, item.location_id)} \cup {item}

\* table.delete_item(Key=...): no error when the key is absent.
DeleteItem(id, location_id) == {r \in store : ~SameKey(r, id, location_id)}

\* table.query(KeyConditionExpression=Key('id').eq(item_id)): the items of the
\* partition in sort-key order.
QueryTable(item_id) == SortBy({r \in store : r.id = item_id}, "location_id")

\* A write reaches the store while the drain loop is between two queries.
MarkWrite(l) == IF l.pc = "loop" THEN [l EXCEPT !.dirty = TRUE] ELSE l

\* ------------------------------------------------------------- POST /item
\* Mutant of NewUlid: the same identifier on every call.
NewUlidFixed == NoId + 1

\* str(ulid.new())
NewUlid == nextId

Create(event_body) ==
    IF event_body.json = "invalid"
    THEN \* json.JSONDecodeError
         /\ last' = [op |-> "create", body |-> event_body, status |-> 400,
                     missing |-> <<>>, calls |-> {}]
         /\ UNCHANGED <<store, nextId, created, deleted, loc, del, endless>>
    ELSE IF event_body.json = "null"
    THEN \* TypeError of `field not in body`: except Exception
         /\ last' = [op |-> "create", body |-> event_body, status |-> 500, calls |-> {}]
         /\ UNCHANGED <<store, nextId, created, deleted, loc, del, endless>>
    ELSE
    LET body == event_body.obj
        missing_fields == Filter(required_fields, DOMAIN body)
    IN  IF missing_fields /= <<>>
        THEN /\ last' = [op |-> "create", body |-> event_body, status |-> 400,
                         missing |-> missing_fields, calls |-> {}]
             /\ UNCHANGED <<store, nextId, created, deleted, loc, del, endless>>
        ELSE LET item_id == NewUlid
                 qty == ParseInt(body.qty_on_hand)
                 price == ParseDecimal(body.price)
                 location == ParseInt(body.location_id)
                 item == [id |-> item_id, name |-> "Bolt", description |-> "M6",
                          qty_on_hand |-> qty.v, price |-> price.v,
                          location_id |-> location.v]
             IN  /\ nextId' = nextId + 1
                 /\ IF ~(qty.ok /\ price.ok /\ location.ok)
                    THEN \* ValueError or InvalidOperation: except Exception
                         /\ last' = [op |-> "create", body |-> event_body,
                                     status |-> 500, calls |-> {}]
                         /\ UNCHANGED <<store, created, loc>>
                    ELSE /\ store' = PutItem(item)
                         /\ last' = [op |-> "create", body |-> event_body,
                                     status |-> 201, item |-> EncodeCreated(item),
                                     calls |-> {"put_item"}]
                         /\ created' = created \cup {EncodeCreated(item)}
                         /\ loc' = MarkWrite(loc)
                 /\ UNCHANGED <<deleted, del, endless>>

\* ------------------------------------------------------------- GET /item/{id}
GetByID(item_id) ==
    /\ IF item_id = NoId
       THEN last' = [op |-> "get", id |-> item_id, status |-> 400, calls |-> {}]
       ELSE LET items == QueryTable(item_id)
            IN  IF items = <<>>
                THEN last' = [op |-> "get", id |-> item_id, status |-> 404,
                              calls |-> {"query"}]
                ELSE last' = [op |-> "get", id |-> item_id, status |-> 200,
                              item |-> EncodeStored(items[1]), calls |-> {"query"}]
    /\ UNCHANGED <<store, nextId, created, deleted, loc, del, endless>>

\* ------------------------------------------------------------- GET /location/{id}
GSI_NAME == "location_id-id-index"

\* table.query(IndexName=GSI_NAME, KeyConditionExpression=Key('location_id')
\* .eq(location_id)[, ExclusiveStartKey=start]) with a page of n items: the
\* items of the index partition after start in sort-key (id) order, and as
\* LastEvaluatedKey the key of the page's last item when the page is full.
\* A store that never ends pagination answers with an empty page and a key.
QueryIndex(location_id, start, n) ==
    IF endless
    THEN [Items |-> <<>>, LastEvaluatedKey |-> IF start = 1 THEN 2 ELSE 1]
    ELSE LET rest == SortBy({r \in store : r.location_id = location_id /\ r.id > start},
                            "id")
             page == Prefix(rest, n)
         IN  [Items |-> page,
              LastEvaluatedKey |-> IF Len(rest) >= n THEN page[n].id ELSE NoId]

EncodeItems(items) == [k \in 1..Len(items) |-> EncodeStored(items[k])]

\* The 200 response of get_location_inventory_items.
LocResponse(param, l, items) ==
    [op |-> "loc", param |-> param, status |-> 200, location_id |-> l.location_id,
     count |-> Len(items), items |-> EncodeItems(items), calls |-> {"query"},
     pages |-> l.pages, dirty |-> l.dirty]

\* Queries counted up to three.
CountPage(n) == IF n < 3 THEN n + 1 ELSE n

\* Mutant of LocStart: the query is issued before the parameter is checked.
LocStartQueryFirst(param) ==
    /\ loc.pc = "idle"
    /\ \E n \in 1..MaxPage :
         LET location_id == ParseInt(param).v
             response == QueryIndex(location_id, NoId, n)
             l == [LocIdle EXCEPT !.location_id = location_id, !.pages = 1,
                                  !.items = response.Items,
                                  !.lek = response.LastEvaluatedKey]
         IN  IF param.kind = "none" \/ ~ParseInt(param).ok
             THEN /\ last' = [op |-> "loc", param |-> param, status |-> 400,
                              calls |-> {"query"}]
                  /\ loc' = loc
             ELSE IF response.LastEvaluatedKey /= NoId
             THEN /\ loc' = [l EXCEPT !.pc = "loop"]
                  /\ last' = NoLast
             ELSE /\ loc' = LocIdle
                  /\ last' = LocResponse(param, l, l.items)
    /\ UNCHANGED <<store, nextId, created, deleted, del, endless>>

LocStart(param) ==
    /\ loc.pc = "idle"
    /\ IF param.kind = "none" \/ ~ParseInt(param).ok
       THEN /\ last' = [op |-> "loc", param |-> param, status |-> 400, calls |-> {}]
            /\ loc' = loc
       ELSE \E n \in 1..MaxPage :
              LET location_id == ParseInt(param).v
                  response == QueryIndex(location_id, NoId, n)
                  l == [LocIdle EXCEPT !.location_id = location_id, !.pages = 1,
                                       !.items = response.Items,
                                       !.lek = response.LastEvaluatedKey]
              IN  IF response.LastEvaluatedKey /= NoId
                  THEN /\ loc' = [l EXCEPT !.pc = "loop"]
                       /\ last' = NoLast
                  ELSE /\ loc' = LocIdle
                       /\ last' = LocResponse(param, l, l.items)
    /\ UNCHANGED <<store, nextId, created, deleted, del, endless>>

\* Mutant of LocNextPage: an if in place of the while, one more page at most.
LocNextPageOnce ==
    /\ loc.pc = "loop"
    /\ \E n \in 1..MaxPage :
         LET response == QueryIndex(loc.location_id, loc.lek, n)
             l == [loc EXCEPT !.items = @ \o response.Items,
                              !.lek = response.LastEvaluatedKey,
                              !.pages = CountPage(@)]
         IN  /\ loc' = LocIdle
             /\ last' = LocResponse(NumStrV(l.location_id), l, l.items)
    /\ UNCHANGED <<store, nextId, created, deleted, del, endless>>

LocNextPage ==
    /\ loc.pc = "loop"
    /\ \E n \in 1..MaxPage :
         LET response == QueryIndex(loc.location_id, loc.lek, n)
             l == [loc EXCEPT !.items = @ \o response.Items,
                              !.lek = response.LastEvaluatedKey,
                              !.pages = CountPage(@)]
         IN  IF response.LastEvaluatedKey /= NoId
             THEN /\ loc' = l
                  /\ last' = NoLast
             ELSE /\ loc' = LocIdle
                  /\ last' = LocResponse(NumStrV(l.location_id), l, l.items)
    /\ UNCHANGED <<store, nextId, created, deleted, del, endless>>

\* ------------------------------------------------------------- DELETE /item/{id}
\* Mutant of DeleteStart: an empty lookup is answered with success.
DeleteStartSilent(p, item_id) ==
    /\ del[p].pc = "idle"
    /\ IF item_id = NoId
       THEN /\ last' = [op |-> "delete", id |-> item_id, status |-> 400, calls |-> {},
                        found |-> FALSE]
            /\ del' = del
       ELSE LET items == QueryTable(item_id)
            IN  IF items = <<>>
                THEN /\ last' = [op |-> "delete", id |-> item_id, status |-> 200,
                                 calls |-> {"query"}, found |-> FALSE]
                     /\ del' = del
                ELSE /\ last' = NoLast
                     /\ del' = [del EXCEPT ![p] = [pc |-> "found", id |-> item_id,
                                                   item |-> items[1]]]
    /\ UNCHANGED <<store, nextId, created, deleted, loc, endless>>

DeleteStart(p, item_id) ==
    /\ del[p].pc = "idle"
    /\ IF item_id = NoId
       THEN /\ last' = [op |-> "delete", id |-> item_id, status |-> 400, calls |-> {},
                        found |-> FALSE]
            /\ del' = del
       ELSE LET items == QueryTable(item_id)
            IN  IF items = <<>>
                THEN /\ last' = [op |-> "delete", id |-> item_id, status |-> 404,
                                 calls |-> {"query"}, found |-> FALSE]
                     /\ del' = del
                ELSE /\ last' = NoLast
                     /\ del' = [del EXCEPT ![p] = [pc |-> "found", id |-> item_id,
                                                   item |-> items[1]]]
    /\ UNCHANGED <<store, nextId, created, deleted, loc, endless>>

\* Mutant of DeleteFinish: the delete is conditional on the item still being
\* there, and its failure is answered with 404.
DeleteFinishConditional(p) ==
    /\ del[p].pc = "found"
    /\ LET item_id == del[p].id
           item_to_delete == del[p].item
           there == item_to_delete \in store
       IN  /\ store' = DeleteItem(item_id, item_to_delete.location_id)
           /\ last' = [op |-> "delete", id |-> item_id,
                       status |-> IF there THEN 200 ELSE 404,
                       deleted_item |-> EncodeStored(item_to_delete),
                       calls |-> {"query", "delete_item"},
                       found |-> TRUE, read |-> item_to_delete,
                       noop |-> store' = store]
           /\ deleted' = IF there
                         THEN deleted \cup {[id |-> item_id,
                                             location_id |-> item_to_delete.location_id,
                                             deleted_item |-> EncodeStored(item_to_delete)]}
                         ELSE deleted
    /\ del' = [del EXCEPT ![p] = DelIdle]
    /\ loc' = MarkWrite(loc)
    /\ UNCHANGED <<nextId, created, endless>>

DeleteFinish(p) ==
    /\ del[p].pc = "found"
    /\ LET item_id == del[p].id
           item_to_delete == del[p].item
       IN  /\ store' = DeleteItem(item_id, item_to_delete.location_id)
           /\ last' = [op |-> "delete", id |-> item_id, status |-> 200,
                       deleted_item |-> EncodeStored(item_to_delete),
                       calls |-> {"query", "delete_item"},
                       found |-> TRUE, read |-> item_to_delete,
                       noop |-> store' = store]
           /\ deleted' = deleted \cup {[id |-> item_id,
                                        location_id |-> item_to_delete.location_id,
                                        deleted_item |-> EncodeStored(item_to_delete)]}
    /\ del' = [del EXCEPT ![p] = DelIdle]
    /\ loc' = MarkWrite(loc)
    /\ UNCHANGED <<nextId, created, endless>>

\* ------------------------------------------------------------- specifications
ValidLocationParams == {NumStrV(l) : l \in Locations}

\* POST /item with a body of B, as long as ulid.new() has handed out fewer
\* than n identifiers.
Post(B, n) == \E body \in B : nextId <= n /\ Create(body)

\* POST /item and GET /location/{id}, interleaved at the queries of the drain.
PostAndDrain(B, P, n) ==
    \/ Post(B, n)
    \/ \E param \in P : LocStart(param)
    \/ LocNextPage

\* The four handlers on requests that pass validation of the body and of the
\* location, with two concurrent DELETE invocations, interleaved at their
\* backend calls.
Next ==
    \/ PostAndDrain(ValidBodies, ValidLocationParams, MaxItems)
    \/ \E item_id \in IdParams : GetByID(item_id)
    \/ \E p \in DOMAIN del, item_id \in IdParams : DeleteStart(p, item_id)
    \/ \E p \in DOMAIN del : DeleteFinish(p)

Spec == Init /\ [][Next]_vars

\* POST /item and GET /location/{id} on every request, well-formed or not.
NextInput == PostAndDrain(AllBodies, LocationParams, MaxItems)

SpecInput == Init /\ [][NextInput]_vars

\* POST /item and GET /location/{id} on enough items for a drain of several
\* full pages.
NextDrain == PostAndDrain(ValidBodies, ValidLocationParams, MaxDrain)

SpecDrain == Init /\ [][NextDrain]_vars

\* The same against a store that may never end pagination; a handler between
\* two queries goes on to the next one.
InitLive == InitCommon /\ endless \in BOOLEAN
SpecLive == InitLive /\ [][NextDrain]_vars /\ WF_vars(LocNextPage)

\* ------------------------------------------------------------- properties
Absent(S, id) == \A r \in S : r.id /= id
Elems(q) == {q[k] : k \in 1..Len(q)}
IndexOf(f) == CHOOSE k \in 1..Len(required_fields) : required_fields[k] = f
\* The fields of a body that is a JSON object.
Given(event_body) == DOMAIN event_body.obj
IsObject(event_body) == event_body.json = "object"
Malformed(event_body) ==
    \E f \in {"qty_on_hand", "price", "location_id"} : event_body.obj[f].kind = "text"

\* C1: a GET /location/{id} that answers 200 with no write reaching the store
\* between its queries returns the items stored at that location, each once
\* and no other, and count is their number; when nothing was ever deleted
\* these are all the items ever created with that location_id.  Items are
\* told apart by id; each returned item is the encoder's image of the stored one.
C1_DrainReturnsAll ==
    (last.op = "loc" /\ last.status = 200 /\ ~last.dirty) =>
        LET L == last.location_id
            here == {r \in store : r.location_id = L}
        IN  /\ Elems(last.items) = {EncodeStored(r) : r \in here}
            /\ last.count = Cardinality(here)
            /\ Len(last.items) = last.count
            /\ \A j, k \in 1..Len(last.items) :
                   j /= k => last.items[j].id /= last.items[k].id
            /\ deleted = {} =>
                   /\ {x.id : x \in Elems(last.items)}
                        = {c.id : c \in {c \in created : c.location_id = L}}
                   /\ last.count = Cardinality({c \in created : c.location_id = L})

\* C1 witness: a drain of three queries or more returned two items or more,
\* with no write in between and nothing ever deleted.
C1_Witness ==
    /\ last.op = "loc" /\ last.status = 200 /\ ~last.dirty /\ deleted = {}
    /\ last.pages >= 3 /\ last.count >= 2

\* C2: every 201 response carries a non-empty id that no other 201 response
\* carries, and a GET /item/{id} of a created id that no delete_item was
\* issued for answers 200 with an item equal to the one the 201 response held.
C2_CreateThenGet ==
    /\ (last.op = "create" /\ last.status = 201) =>
           /\ last.item.id /= NoId
           /\ \A c \in created : c.id = last.item.id => c = last.item
    /\ (last.op = "get" /\ ~Absent(created, last.id) /\ Absent(deleted, last.id)) =>
           /\ last.status = 200
           /\ last.item \in created

\* What remains of C2 on the code: the item of GET /item/{id} is the encoder's
\* image of the stored item, which the 201 response equals up to the encoder.
C2_UpToEncoder ==
    /\ (last.op = "create" /\ last.status = 201) =>
           /\ last.item.id /= NoId
           /\ \A c \in created : c.id = last.item.id => c = last.item
    /\ (last.op = "get" /\ ~Absent(created, last.id) /\ Absent(deleted, last.id)) =>
           /\ last.status = 200
           /\ \E c \in created : last.item = EncodeStored(c)

\* C3: a DELETE /item/{id} of a stored id answers 200, never 404, with
\* deleted_item equal to the item as it was stored, and a GET /item/{id}
\* after the delete_item answers 404.
C3_DeleteReturnsContent ==
    /\ (last.op = "delete" /\ last.status = 404) => Absent(store, last.id)
    /\ (last.op = "delete" /\ last.found) =>
           /\ last.status = 200
           /\ last.deleted_item = last.read
    /\ (last.op = "get" /\ ~Absent(deleted, last.id)) => last.status = 404

\* C4: a DELETE /item/{id} whose non-empty id matches no stored item answers
\* 404, issues no delete_item and changes nothing in the store; and a 200
\* is only ever answered after a lookup that returned an item that was created.
C4_DeleteNotFound ==
    [][/\ \A p \in DOMAIN del, i \in Ids :
            (Absent(store, i) /\ DeleteStart(p, i)) =>
                /\ last'.op = "delete" /\ last'.id = i /\ last'.status = 404
                /\ "delete_item" \notin last'.calls
                /\ store' = store /\ deleted' = deleted /\ del' = del
       /\ (last'.op = "delete" /\ last'.status = 200) =>
              /\ last'.found
              /\ \E c \in created' : c.id = last'.id /\ c = EncodeCreated(last'.read)
      ]_vars

\* C4 witness: a 404 for an id that matches nothing while the store holds an
\* item.
C4_Witness ==
    /\ last.op = "delete" /\ last.status = 404 /\ last.id /= NoId
    /\ store /= {} /\ Absent(store, last.id)

C6_ConcurrentDelete ==
    (last.op = "delete" /\ last.found) =>
        /\ last.status = 200
        /\ last.deleted_item = EncodeStored(last.read)
        /\ Absent(store, last.id)
        /\ \A d \in deleted : d.id = last.id => d.deleted_item = last.deleted_item
        /\ \E d \in deleted : d.id = last.id

\* C6 witness: a 200 of a DELETE whose delete_item removed nothing.
C6_Witness ==
    /\ last.op = "delete" /\ last.found /\ last.status = 200 /\ last.noop
    /\ \E d \in deleted : d.id = last.id /\ d.deleted_item = last.deleted_item

\* C7: a POST /item with every required field present and a value that is no
\* number answers 400, and nothing is put in the store.
C7_MalformedIsClientError ==
    (last.op = "create" /\ IsObject(last.body) /\ Given(last.body) = RequiredSet
       /\ Malformed(last.body)) =>
        /\ last.status = 400
        /\ "put_item" \notin last.calls

\* What holds of C7 on the code: the answer is never 201 and nothing is put.
C7_MalformedNotStored ==
    [][(last'.op = "create" /\ IsObject(last'.body) /\ Given(last'.body) = RequiredSet
          /\ Malformed(last'.body)) =>
          /\ last'.status = 500
          /\ last'.calls = {}
          /\ store' = store /\ created' = created
      ]_vars

\* C8: a GET /location/{id} whose parameter is a non-empty string that is no
\* integer answers 400 without a query to the store.
C8_LocationNotInteger ==
    [][(last'.op = "loc" /\ last'.param.kind = "text") =>
          /\ last'.status = 400
          /\ last'.calls = {}
          /\ loc' = loc /\ store' = store
      ]_vars

\* C8 witness: such a 400 while the store holds items.
C8_Witness ==
    /\ last.op = "loc" /\ last.param.kind = "text" /\ last.status = 400
    /\ store /= {}

\* C9: a GET /location/{id} that has begun to drain pages returns, also when
\* every response of the store carries a LastEvaluatedKey.
C9_DrainReturns == (loc.pc = "loop") ~> (loc.pc = "idle")

\* What holds of C9 on the code: the drain returns when the store ends pagination.
C9_DrainReturnsIfStoreEnds == (loc.pc = "loop" /\ ~endless) ~> (loc.pc = "idle")

\* C10: the store never holds two items of one id, so the lookup by id
\* returns one item at most, and a DELETE that found the item leaves no item
\* of that id behind.
C10_OneItemPerId ==
    /\ \A r1, r2 \in store : r1.id = r2.id => r1 = r2
    /\ \A i \in Ids : Len(QueryTable(i)) <= 1
    /\ (last.op = "delete" /\ last.found) => Absent(store, last.id)

\* C10 witness: two items at two locations in the store after a DELETE in
\* flight and a GET of one of them.
C10_Witness ==
    /\ \E r1, r2 \in store : r1.location_id /= r2.location_id
    /\ \E p \in DOMAIN del : del[p].pc = "found"
    /\ last.op = "get" /\ last.status = 200
====
